---- MODULE Spec2Model ----
(***************************************************************************)
(* A model of the conversational agent: the fetchUserNode and              *)
(* conversationNode handlers, the AgentState reducers, the provider        *)
(* registry and the long-term memory store the nodes read and write.       *)
(*                                                                         *)
(* Optional values (T | undefined | null) are tuples of length at most     *)
(* one: None is <<>>, Some(v) is <<v>>.  Strings are TLA+ strings, built   *)
(* and searched character by character as the JavaScript does.             *)
(***************************************************************************)
EXTENDS Integers, Sequences, FiniteSets, TLC

VARIABLES env, sembleService, llmService, clock, store,
          messages, user, turn, started, putLog, probe

vars == <<env, sembleService, llmService, clock, store,
          messages, user, turn, started, putLog, probe>>

(***************************************************************************)
(* Bounds of the model.                                                    *)
(***************************************************************************)
\* turns (graph invocations) started in one behaviour, over all threads
MaxTurns == 2
\* the last millisecond the clock reaches
MaxClock == 1

\* thread identifiers (configurable.thread_id); one run in flight per thread
Threads == {"t1", "t2"}

(***************************************************************************)
(* Optional values.                                                        *)
(***************************************************************************)
None == <<>>
Some(v) == <<v>>
\* a ?? b
OrElse(a, b) == IF a = None THEN b ELSE a[1]
\* JavaScript truthiness of an optional string: absent and "" are falsy
Truthy(a) == a # None /\ a[1] # ""

(***************************************************************************)
(* String helpers: String.prototype.toLowerCase and .includes.             *)
(***************************************************************************)
LowerChar(c) ==
  CASE c = "A" -> "a" [] c = "B" -> "b" [] c = "C" -> "c" [] c = "D" -> "d"
    [] c = "E" -> "e" [] c = "F" -> "f" [] c = "G" -> "g" [] c = "H" -> "h"
    [] c = "I" -> "i" [] c = "J" -> "j" [] c = "K" -> "k" [] c = "L" -> "l"
    [] c = "M" -> "m" [] c = "N" -> "n" [] c = "O" -> "o" [] c = "P" -> "p"
    [] c = "Q" -> "q" [] c = "R" -> "r" [] c = "S" -> "s" [] c = "T" -> "t"
    [] c = "U" -> "u" [] c = "V" -> "v" [] c = "W" -> "w" [] c = "X" -> "x"
    [] c = "Y" -> "y" [] c = "Z" -> "z" [] OTHER -> c

RECURSIVE ToLowerCase(_)
ToLowerCase(s) ==
  IF s = "" THEN "" ELSE LowerChar(SubSeq(s, 1, 1)) \o ToLowerCase(Tail(s))

Includes(s, sub) ==
  \E i \in 1..(Len(s) - Len(sub) + 1) : SubSeq(s, i, i + Len(sub) - 1) = sub

(***************************************************************************)
(* Messages.  content is a plain string (kind "string") or an array of     *)
(* content parts (kind "parts", text being the text of its part).          *)
(***************************************************************************)
StringContent(s) == [kind |-> "string", text |-> s]
PartsContent(s) == [kind |-> "parts", text |-> s]
Message(id, role, content) == [id |-> id, role |-> role, content |-> content]

\* graph.invoke({ messages: input }, { configurable: { clientId, systemPrompt } })
\* (configurable.model is left unset)
Request(input, clientId, systemPrompt) ==
  [ input |-> input,
    config |-> [clientId |-> clientId, systemPrompt |-> systemPrompt,
                model |-> None] ]

\* the same request with configurable.model set
WithModel(req, model) == [req EXCEPT !.config.model = model]

Human(content) == <<[role |-> "human", content |-> content]>>

\* the requests callers make
Requests ==
  { Request(<<>>, None, None),
    Request(Human(StringContent("Please remember I like tea")), Some("alice"), None),
    Request(Human(StringContent("Please remember I like tea")), None, None),
    Request(Human(StringContent("REMEMBER this")), Some("alice"), Some("Be brief.")),
    Request(Human(StringContent("What's the weather?")), Some("alice"), None),
    Request(Human(PartsContent("remember my name")), Some("alice"), None) }

\* what the chat provider answers
Replies == { "I will remember that." }

(***************************************************************************)
(* AgentState reducers.                                                    *)
(***************************************************************************)
IndexOfId(list, id) ==
  IF \E i \in 1..Len(list) : list[i].id = id
  THEN CHOOSE i \in 1..Len(list) : list[i].id = id
  ELSE 0

\* one step of messagesStateReducer's merge loop: a message whose id is
\* already in the list replaces that entry in place, any other is pushed
MergeMessage(merged, m) ==
  IF IndexOfId(merged, m.id) # 0
  THEN [merged EXCEPT ![IndexOfId(merged, m.id)] = m]
  ELSE Append(merged, m)

\* variant: a channel without the reducer, where the update replaces the list
messagesStateReducerMutant(left, right) == right

RECURSIVE messagesStateReducer(_, _)
messagesStateReducer(left, right) ==
  IF right = <<>> THEN left
  ELSE messagesStateReducer(MergeMessage(left, Head(right)), Tail(right))

\* the id a message without one is given (a v4 uuid), and the id the chat
\* provider gives its completion: one no message of the thread has
FreshId(list) == Len(list) + 1

\* variant: the update always replaces the value
userReducerMutant(x, y) == y

\* user: (x, y) => y ?? x
userReducer(x, y) == IF y # None THEN y ELSE x

(***************************************************************************)
(* Process environment and the provider registry.                          *)
(***************************************************************************)
\* OPENROUTER_API_KEY and DATABASE_URL: set or not; the others: their value
\* (MODEL_NAME is left unset)
Env(key, db, mock, prompt) ==
  [ OPENROUTER_API_KEY |-> key, DATABASE_URL |-> db,
    USE_MOCK_SEMBLE |-> mock, SYSTEM_PROMPT |-> prompt, MODEL_NAME |-> None ]

Envs ==
  { Env(TRUE, TRUE, None, None),
    Env(TRUE, TRUE, Some("false"), Some("You are a nurse.")),
    Env(TRUE, FALSE, None, None),
    Env(FALSE, TRUE, None, None) }

\* variant: the store is given up once a search has thrown
HasStoreMutant == env.DATABASE_URL /\ \A t \in Threads : turn[t].searched # "threw"

\* graph.ts: the store and the checkpointer exist when DATABASE_URL is set
HasStore == env.DATABASE_URL
HasCheckpointer == env.DATABASE_URL

\* openrouter.service.ts
DEFAULT_MODEL == "google/gemini-2.5-flash-lite"

\* variant: the process-level name is preferred to the caller's
getModelMutant(modelName) ==
  OrElse(env.MODEL_NAME, OrElse(modelName, DEFAULT_MODEL))

\* the model identifier getModel hands to ChatOpenAI
getModel(modelName) ==
  OrElse(modelName, OrElse(env.MODEL_NAME, DEFAULT_MODEL))

createSembleService ==
  IF env.USE_MOCK_SEMBLE # Some("false") THEN "mock" ELSE "real"

\* the Patient the mock service answers with (address and phones, which no
\* code reads, are left out)
MockPatient(userId) ==
  [ id |-> userId, firstName |-> Some("John"), lastName |-> Some("Doe"),
    email |-> Some("john.doe@example.com"), dob |-> Some("1985-05-15"),
    gender |-> Some("Male") ]

\* a Patient of the CRM: the names only
CrmPatient(userId) ==
  [ id |-> userId, firstName |-> Some("Jane"), lastName |-> Some("Doe"),
    email |-> None, dob |-> None, gender |-> None ]

\* the outcomes of ISembleService.getUser for each implementation: the mock,
\* the real one, and "interface", any implementation of
\* getUser(userId): Promise<Patient | null>
getUser(service, userId) ==
  IF service = "mock"
  THEN { [kind |-> "value", value |-> Some(MockPatient(userId))] }
  ELSE IF service = "real"
  THEN { [kind |-> "throw", value |-> None] }
  ELSE { [kind |-> "value", value |-> Some(CrmPatient(userId))],
         [kind |-> "value", value |-> None],
         [kind |-> "throw", value |-> None] }

(***************************************************************************)
(* conversation.ts: the pure helpers.                                      *)
(***************************************************************************)
DEFAULT_SYSTEM_PROMPT == "You are a helpful assistant."

\* variant: the namespace leaves the client out
getMemoryNamespaceBareMutant(clientId) == <<"memories">>

\* variant: one namespace for every client
getMemoryNamespaceMutant(clientId) == <<"memories", "default">>

getMemoryNamespace(clientId) == <<"memories", clientId>>

\* variant: || in place of ??, an empty text falls through
getSystemPromptMutant(systemPrompt) ==
  IF Truthy(systemPrompt) THEN systemPrompt[1]
  ELSE IF Truthy(env.SYSTEM_PROMPT) THEN env.SYSTEM_PROMPT[1]
  ELSE DEFAULT_SYSTEM_PROMPT

getSystemPrompt(systemPrompt) ==
  OrElse(systemPrompt, OrElse(env.SYSTEM_PROMPT, DEFAULT_SYSTEM_PROMPT))

RECURSIVE Join(_, _)
Join(list, sep) ==
  IF list = <<>> THEN ""
  ELSE IF Len(list) = 1 THEN list[1]
  ELSE list[1] \o sep \o Join(Tail(list), sep)

\* a template literal prints an absent field as "undefined"
Interpolate(a) == IF a = None THEN "undefined" ELSE a[1]

\* variant: the lines of absent fields are not filtered out; join prints
\* them as ""
UserDetailsMutant(u) ==
  Join( << "User Name: " \o Interpolate(u.firstName) \o " " \o Interpolate(u.lastName),
           IF Truthy(u.email) THEN "Email: " \o u.email[1] ELSE "",
           IF Truthy(u.dob) THEN "DOB: " \o u.dob[1] ELSE "",
           IF Truthy(u.gender) THEN "Gender: " \o u.gender[1] ELSE "" >>,
        "\n" )

UserDetails(u) ==
  Join( <<"User Name: " \o Interpolate(u.firstName) \o " " \o Interpolate(u.lastName)>>
          \o (IF Truthy(u.email) THEN <<"Email: " \o u.email[1]>> ELSE <<>>)
          \o (IF Truthy(u.dob) THEN <<"DOB: " \o u.dob[1]>> ELSE <<>>)
          \o (IF Truthy(u.gender) THEN <<"Gender: " \o u.gender[1]>> ELSE <<>>),
        "\n" )

USER_BLOCK == "\n\nHere is some information about the user you are talking to:\n"
MEMORY_BLOCK == "\n\nWhat you remember about this user:\n"

\* the text of the SystemMessage createSystemMessage builds
\* variant: the memory block is appended whether or not there is a text
SystemPromptTextMutant(memories, u, systemPrompt) ==
  getSystemPrompt(systemPrompt)
    \o (IF u # None THEN USER_BLOCK \o UserDetails(u[1]) ELSE "")
    \o MEMORY_BLOCK \o memories

SystemPromptText(memories, u, systemPrompt) ==
  getSystemPrompt(systemPrompt)
    \o (IF u # None THEN USER_BLOCK \o UserDetails(u[1]) ELSE "")
    \o (IF memories # "" THEN MEMORY_BLOCK \o memories ELSE "")

createSystemMessage(memories, u, systemPrompt) ==
  Message(0, "system", StringContent(SystemPromptText(memories, u, systemPrompt)))

\* variant: the texts are not filtered; join prints an absent one as ""
RECURSIVE MemoryTextsMutant(_)
MemoryTextsMutant(memories) ==
  IF memories = <<>> THEN <<>>
  ELSE <<OrElse(Head(memories).value.text, "")>>
       \o MemoryTextsMutant(Tail(memories))

\* memories.map(m => m.value?.text).filter(Boolean)
RECURSIVE MemoryTexts(_)
MemoryTexts(memories) ==
  IF memories = <<>> THEN <<>>
  ELSE (IF Truthy(Head(memories).value.text)
        THEN <<Head(memories).value.text[1]>> ELSE <<>>)
       \o MemoryTexts(Tail(memories))

\* variant: the bullet prefix is added without testing for an empty result
RenderMemoriesMutant(memories) == "- " \o Join(MemoryTexts(memories), "\n- ")

\* the memoriesText conversationNode derives from a search result
RenderMemories(memories) ==
  IF Len(memories) > 0
  THEN LET joined == Join(MemoryTexts(memories), "\n- ")
       IN  IF joined # "" THEN "- " \o joined ELSE ""
  ELSE ""

\* typeof lastMessage?.content === "string" ? lastMessage.content : ""
LastContent(msgs) ==
  IF msgs # <<>> /\ msgs[Len(msgs)].content.kind = "string"
  THEN msgs[Len(msgs)].content.text
  ELSE ""

\* variant: the test is made without toLowerCase()
WantsMemoryMutant(content) == Includes(content, "remember")

WantsMemory(content) == Includes(ToLowerCase(content), "remember")

\* variant: the key carries a sequence number besides the timestamp
MemoryIdMutant(now) == "mem_" \o ToString(now) \o "_" \o ToString(Len(putLog))

\* `mem_${Date.now()}`
MemoryId(now) == "mem_" \o ToString(now)

MemoryItem(content, createdAt) == [text |-> Some(content), createdAt |-> createdAt]

(***************************************************************************)
(* The long-term store: entries in insertion order; put upserts by         *)
(* (namespace, key); search lists a namespace up to the limit.             *)
(***************************************************************************)
SEARCH_LIMIT == 10

InNamespace(st, namespace) == SelectSeq(st, LAMBDA e : e.namespace = namespace)

\* variant: the search answers with the newest items of the namespace
StoreSearchMutant(st, namespace, limit) ==
  LET found == InNamespace(st, namespace)
  IN  SubSeq(found, IF Len(found) < limit THEN 1 ELSE Len(found) - limit + 1,
             Len(found))

StoreSearch(st, namespace, limit) ==
  LET found == InNamespace(st, namespace)
  IN  SubSeq(found, 1, IF Len(found) < limit THEN Len(found) ELSE limit)

EntryIndex(st, namespace, key) ==
  IF \E i \in 1..Len(st) : st[i].namespace = namespace /\ st[i].key = key
  THEN CHOOSE i \in 1..Len(st) : st[i].namespace = namespace /\ st[i].key = key
  ELSE 0

StorePut(st, namespace, key, value) ==
  LET e == [namespace |-> namespace, key |-> key, value |-> value]
  IN  IF EntryIndex(st, namespace, key) # 0
      THEN [st EXCEPT ![EntryIndex(st, namespace, key)] = e]
      ELSE Append(st, e)

(***************************************************************************)
(* One run of the graph on a thread.  pc is the place the run is at:       *)
(*   fetchUserNode, getUser (awaiting sembleService.getUser),              *)
(*   conversationNode, search (awaiting store.search), invoke (awaiting    *)
(*   llm.invoke), put (awaiting store.put), returned (the node returned    *)
(*   its update), failed (the node threw).                                 *)
(* The other fields are the locals of the nodes and what the run did:      *)
(* calls lists the external calls in the order they were issued.           *)
(***************************************************************************)
NoItem == [text |-> None, createdAt |-> 0]

\* probe: the last helper applied on its own, its arguments and its result
NoProbe ==
  [ op |-> "none", items |-> <<>>, memories |-> "", profile |-> None,
    override |-> None, role |-> "", out |-> "" ]

IdleTurn ==
  [ pc |-> "idle",
    config |-> [clientId |-> None, systemPrompt |-> None, model |-> None],
    model |-> "",
    clientId |-> "",
    memoriesText |-> "",
    llmInput |-> <<>>,
    response |-> None,
    content |-> "",
    now |-> 0,
    memoryId |-> "",
    memoryItem |-> NoItem,
    delta |-> None,
    fetched |-> "none",
    searched |-> "none",
    invoked |-> "none",
    stored |-> "none",
    error |-> "none",
    calls |-> <<>> ]

Init ==
  /\ env \in Envs
  /\ sembleService = None
  /\ llmService = None
  /\ clock = 0
  /\ store = <<>>
  /\ messages = [t \in Threads |-> <<>>]
  /\ user = [t \in Threads |-> None]
  /\ turn = [t \in Threads |-> IdleTurn]
  /\ started = 0
  /\ putLog = <<>>
  /\ probe = NoProbe

\* the first node of the graph
EntryNode == "fetchUserNode"

\* graph.invoke(input, config) on thread t: the saved state of the thread
\* (the defaults without a checkpointer) merged with the input
InvokeWith(t, req) ==
  /\ turn[t].pc = "idle"
  /\ started < MaxTurns
  /\   LET saved == IF HasCheckpointer THEN messages[t] ELSE <<>>
           sent == [i \in 1..Len(req.input) |->
                      Message(FreshId(saved) + i - 1, req.input[i].role,
                              req.input[i].content)]
       IN  /\ messages' = [messages EXCEPT ![t] = messagesStateReducer(saved, sent)]
           /\ user' = [user EXCEPT ![t] = IF HasCheckpointer THEN user[t] ELSE None]
           /\ turn' = [turn EXCEPT ![t] =
                         [IdleTurn EXCEPT !.pc = EntryNode, !.config = req.config]]
  /\ started' = started + 1
  /\ UNCHANGED <<probe, env, sembleService, llmService, clock, store, putLog>>

Invoke(t) == \E req \in Requests : InvokeWith(t, req)

\* variant: only an absent clientId skips the lookup
HasClientIdMutant(config) == config.clientId # None

\* the test if (!clientId) of fetchUserNode, negated
HasClientId(config) == Truthy(config.clientId)

\* variant: no catch around the lookup
GetUserFailedMutant(tr) == [tr EXCEPT !.pc = "failed", !.fetched = "threw"]

\* catch (error) { return {}; }
GetUserFailed(tr) == [tr EXCEPT !.pc = "conversationNode", !.fetched = "threw"]

\* fetchUserNode up to its await
FetchUserNode(t) ==
  /\ turn[t].pc = "fetchUserNode"
  /\ sembleService' = IF sembleService = None THEN Some(createSembleService)
                      ELSE sembleService
  /\ turn' = [turn EXCEPT ![t] =
       IF ~HasClientId(turn[t].config)
       THEN [@ EXCEPT !.pc = "conversationNode", !.fetched = "skipped"]
       ELSE [@ EXCEPT !.pc = "getUser", !.calls = Append(@, "getUser")]]
  /\ UNCHANGED <<probe, env, llmService, clock, store, messages, user, started, putLog>>

\* sembleService.getUser settles and fetchUserNode returns its update,
\* which the graph merges into the thread's state
GetUserReturn(t) ==
  /\ turn[t].pc = "getUser"
  /\ \E r \in getUser(sembleService[1], turn[t].config.clientId[1]) :
       LET update == IF r.kind = "value" /\ r.value # None THEN r.value ELSE None
       IN  /\ user' = [user EXCEPT ![t] = userReducer(@, update)]
           /\ turn' = [turn EXCEPT ![t] =
                IF r.kind = "throw" THEN GetUserFailed(@)
                ELSE [@ EXCEPT !.pc = "conversationNode",
                               !.fetched = IF r.value = None THEN "absent"
                                           ELSE "found"]]
  /\ UNCHANGED <<probe, env, sembleService, llmService, clock, store, messages,
                 started, putLog>>

\* variant: a search that threw is issued again next to llm.invoke
CallLLMSearchAgainMutant(t, tr, memoriesText) ==
  [tr EXCEPT !.pc = "invoke",
             !.memoriesText = memoriesText,
             !.llmInput = <<createSystemMessage(memoriesText, user[t],
                                                tr.config.systemPrompt)>>
                            \o messages[t],
             !.calls = IF tr.searched = "threw"
                       THEN Append(Append(@, "search"), "invoke")
                       ELSE Append(@, "invoke")]

\* variant: the model is given the system message and the last message only
CallLLMLastOnlyMutant(t, tr, memoriesText) ==
  [tr EXCEPT !.pc = "invoke",
             !.memoriesText = memoriesText,
             !.llmInput = <<createSystemMessage(memoriesText, user[t],
                                                tr.config.systemPrompt)>>
                            \o (IF messages[t] = <<>> THEN <<>>
                                ELSE <<messages[t][Len(messages[t])]>>),
             !.calls = Append(@, "invoke")]

\* variant: the system message carries the number of the turn
CallLLMMutant(t, tr, memoriesText) ==
  [tr EXCEPT !.pc = "invoke",
             !.memoriesText = memoriesText,
             !.llmInput = <<[createSystemMessage(memoriesText, user[t],
                                                 tr.config.systemPrompt)
                               EXCEPT !.content =
                                 StringContent(@.text \o "\n\nTurn " \o ToString(started))]>>
                            \o messages[t],
             !.calls = Append(@, "invoke")]

\* the turn's locals once memoriesText is known: the system message is
\* built and llm.invoke([systemMessage, ...state.messages]) is issued
CallLLM(t, tr, memoriesText) ==
  [tr EXCEPT !.pc = "invoke",
             !.memoriesText = memoriesText,
             !.llmInput = <<createSystemMessage(memoriesText, user[t],
                                                tr.config.systemPrompt)>>
                            \o messages[t],
             !.calls = Append(@, "invoke")]

\* variant: a caller without a clientId gets a namespace of its own
ClientIdOfMutant(config) == OrElse(config.clientId, "anonymous")

\* (config.configurable?.clientId as string) ?? "default"
ClientIdOf(config) == OrElse(config.clientId, "default")

\* conversationNode up to its first await
ConversationNode(t) ==
  /\ turn[t].pc = "conversationNode"
  /\ IF llmService = None /\ ~env.OPENROUTER_API_KEY
     THEN \* new OpenRouterLLMService() throws
          /\ turn' = [turn EXCEPT ![t] = [@ EXCEPT !.pc = "failed", !.error = "config"]]
          /\ UNCHANGED llmService
     ELSE /\ llmService' = Some("openrouter")
          /\ LET modelName == turn[t].config.model
                 clientId == ClientIdOf(turn[t].config)
                 tr == [turn[t] EXCEPT !.model = getModel(modelName),
                                       !.clientId = clientId]
             IN  turn' = [turn EXCEPT ![t] =
                   IF HasStore
                   THEN [tr EXCEPT !.pc = "search", !.calls = Append(@, "search")]
                   ELSE CallLLM(t, [tr EXCEPT !.searched = "skipped"], "")]
  /\ UNCHANGED <<probe, env, sembleService, clock, store, messages, user, started, putLog>>

\* store.search settles: it throws, or answers with the namespace's items
SearchReturn(t) ==
  /\ turn[t].pc = "search"
  /\ \/ turn' = [turn EXCEPT ![t] = CallLLM(t, [@ EXCEPT !.searched = "threw"], "")]
     \/ LET memories == StoreSearch(store, getMemoryNamespace(turn[t].clientId),
                                    SEARCH_LIMIT)
        IN  turn' = [turn EXCEPT ![t] =
              CallLLM(t, [@ EXCEPT !.searched = IF memories = <<>> THEN "empty"
                                                 ELSE "found"],
                      RenderMemories(memories))]
  /\ UNCHANGED <<probe, env, sembleService, llmService, clock, store, messages, user,
                 started, putLog>>

\* variant: the node returns the first incoming message too, its text cut
ReturnDeltaRewritesMutant(tr) ==
  [tr EXCEPT !.pc = "returned",
             !.delta = Some(<<[tr.llmInput[2] EXCEPT !.content = StringContent("")],
                              tr.response[1]>>)]

\* variant: the node returns the whole conversation, not only the reply
ReturnDeltaMutant(tr) ==
  [tr EXCEPT !.pc = "returned", !.delta = Some(Tail(tr.llmInput) \o <<tr.response[1]>>)]

\* return { messages: [response] }
ReturnDelta(tr) == [tr EXCEPT !.pc = "returned", !.delta = Some(<<tr.response[1]>>)]

\* variant: after llm.invoke threw, the node still writes the memory
InvokeFailedWritesMutant(tr) ==
  [tr EXCEPT !.pc = "put", !.invoked = "threw",
             !.response = Some(Message(Len(tr.llmInput), "ai", StringContent("Sorry."))),
             !.memoryId = MemoryId(0),
             !.memoryItem = MemoryItem(LastContent(Tail(tr.llmInput)), 0),
             !.calls = Append(@, "put")]

\* variant: llm.invoke in a try block that answers with a fallback reply
InvokeFailedMutant(tr) ==
  ReturnDelta([tr EXCEPT !.invoked = "threw",
                         !.response = Some(Message(Len(tr.llmInput), "ai",
                                                   StringContent("Sorry.")))])

\* llm.invoke throws: nothing catches it, the node throws
InvokeFailed(tr) == [tr EXCEPT !.pc = "failed", !.invoked = "threw", !.error = "llm"]

\* variant: after a put that threw the node returns the reply without its
\* text
PutFailedAlteredMutant(tr) ==
  [tr EXCEPT !.pc = "returned", !.stored = "threw",
             !.delta = Some(<<[tr.response[1] EXCEPT !.content = StringContent("")]>>)]

\* variant: store.put outside the try block
PutFailedMutant(tr) == [tr EXCEPT !.pc = "failed", !.stored = "threw", !.error = "store"]

\* store.put throws: the catch block ignores it and the node returns
PutFailed(tr) == ReturnDelta([tr EXCEPT !.stored = "threw"])

\* llm.invoke settles: it throws and the node with it, or it answers and
\* the node goes on to the memory write.  Date.now() reads a clock that
\* never runs backwards.
InvokeReturn(t) ==
  /\ turn[t].pc = "invoke"
  /\ \/ /\ turn' = [turn EXCEPT ![t] = InvokeFailed(@)]
        /\ UNCHANGED clock
     \/ \E reply \in Replies :
          LET response == Message(FreshId(messages[t]), "ai", StringContent(reply))
              content == LastContent(messages[t])
              tr == [turn[t] EXCEPT !.invoked = "ok", !.response = Some(response)]
          IN  IF HasStore /\ WantsMemory(content)
              THEN \E now \in clock..MaxClock :
                     /\ clock' = now
                     /\ turn' = [turn EXCEPT ![t] =
                          [tr EXCEPT !.pc = "put",
                                     !.content = content,
                                     !.now = now,
                                     !.memoryId = MemoryId(now),
                                     !.memoryItem = MemoryItem(content, now),
                                     !.calls = Append(@, "put")]]
              ELSE /\ turn' = [turn EXCEPT ![t] = ReturnDelta(tr)]
                   /\ UNCHANGED clock
  /\ UNCHANGED <<probe, env, sembleService, llmService, store, messages, user,
                 started, putLog>>

\* store.put settles: the item is stored, or put throws and the error is
\* ignored; either way the node returns
PutReturn(t) ==
  /\ turn[t].pc = "put"
  /\ LET namespace == getMemoryNamespace(turn[t].clientId)
     IN  \/ /\ store' = StorePut(store, namespace, turn[t].memoryId, turn[t].memoryItem)
            /\ putLog' = Append(putLog, [namespace |-> namespace, key |-> turn[t].memoryId,
                                         now |-> turn[t].now])
            /\ turn' = [turn EXCEPT ![t] = ReturnDelta([@ EXCEPT !.stored = "ok"])]
         \/ /\ turn' = [turn EXCEPT ![t] = PutFailed(@)]
            /\ UNCHANGED <<store, putLog>>
  /\ UNCHANGED <<probe, env, sembleService, llmService, clock, messages, user, started>>

\* the run ends: the graph merges the node's update into the thread's
\* state, or the node's error rejects graph.invoke
Settle(t) ==
  /\ \/ /\ turn[t].pc = "returned"
        /\ messages' = [messages EXCEPT ![t] = messagesStateReducer(@, turn[t].delta[1])]
     \/ /\ turn[t].pc = "failed"
        /\ UNCHANGED messages
  /\ turn' = [turn EXCEPT ![t] = IdleTurn]
  /\ UNCHANGED <<probe, env, sembleService, llmService, clock, store, user, started, putLog>>

Next ==
  \E t \in Threads :
    \/ Invoke(t)
    \/ FetchUserNode(t)
    \/ GetUserReturn(t)
    \/ ConversationNode(t)
    \/ SearchReturn(t)
    \/ InvokeReturn(t)
    \/ PutReturn(t)
    \/ Settle(t)

(***************************************************************************)
(* Turns that differ in their clientId, against either implementation the  *)
(* registry builds or against any implementation of ISembleService.        *)
(***************************************************************************)
ProfileRequests ==
  { Request(Human(StringContent("What's the weather?")), None, None),
    Request(Human(StringContent("What's the weather?")), Some(""), None),
    Request(Human(StringContent("What's the weather?")), Some("alice"), None),
    WithModel(Request(Human(StringContent("Please remember I like tea")),
                      Some("bob"), None),
              Some("openai/gpt-4o")) }

ProfileEnvs ==
  { Env(TRUE, TRUE, None, None),
    Env(TRUE, TRUE, Some("false"), None) }

ProfileInit ==
  /\ env \in ProfileEnvs
  /\ sembleService \in {None, Some("interface")}
  /\ llmService = None
  /\ clock = 0
  /\ store = <<>>
  /\ messages = [t \in Threads |-> <<>>]
  /\ user = [t \in Threads |-> None]
  /\ turn = [t \in Threads |-> IdleTurn]
  /\ started = 0
  /\ putLog = <<>>
  /\ probe = NoProbe

ProfileInvoke(t) == \E req \in ProfileRequests : InvokeWith(t, req)

ProfileNext ==
  \E t \in Threads :
    \/ ProfileInvoke(t)
    \/ FetchUserNode(t)
    \/ GetUserReturn(t)
    \/ ConversationNode(t)
    \/ SearchReturn(t)
    \/ InvokeReturn(t)
    \/ PutReturn(t)
    \/ Settle(t)

(***************************************************************************)
(* Turns of two clients against a store that earlier processes have        *)
(* written: the memories of alice, stored before the clock's origin, and   *)
(* one memory of bob.                                                      *)
(***************************************************************************)
\* memories of alice stored before the process started
MaxEarlier == 10

EarlierStore(n) ==
  <<[ namespace |-> getMemoryNamespace("bob"), key |-> "mem_-" \o ToString(n + 1),
      value |-> MemoryItem("bob likes coffee", 0) ]>>
  \o [i \in 1..n |->
        [ namespace |-> getMemoryNamespace("alice"),
          key |-> "mem_-" \o ToString(n + 1 - i),
          value |-> MemoryItem(ToString(i), 0) ]]

MemoryRequests ==
  { Request(Human(StringContent("Please remember I like tea")), Some("alice"), None),
    Request(Human(StringContent("What's the weather?")), Some("alice"), None),
    Request(Human(StringContent("REMEMBER this")), Some("bob"), None) }

MemoryInit ==
  /\ env = Env(TRUE, TRUE, None, None)
  /\ sembleService = None
  /\ llmService = None
  /\ clock = 0
  /\ store \in {EarlierStore(0), EarlierStore(MaxEarlier)}
  /\ messages = [t \in Threads |-> <<>>]
  /\ user = [t \in Threads |-> None]
  /\ turn = [t \in Threads |-> IdleTurn]
  /\ started = 0
  /\ putLog = <<>>
  /\ probe = NoProbe

MemoryInvoke(t) == \E req \in MemoryRequests : InvokeWith(t, req)

MemoryNext ==
  \E t \in Threads :
    \/ MemoryInvoke(t)
    \/ FetchUserNode(t)
    \/ GetUserReturn(t)
    \/ ConversationNode(t)
    \/ SearchReturn(t)
    \/ InvokeReturn(t)
    \/ PutReturn(t)
    \/ Settle(t)

(***************************************************************************)
(* The helpers on their own: each action applies one of them to arguments  *)
(* drawn from bounded sets, once in a behaviour, and leaves the arguments   *)
(* and the result in probe.  The environment is drawn once, as a process   *)
(* reads it.                                                               *)
(***************************************************************************)
\* items in one search result
MaxItems == 3
\* items stored in one namespace
MaxStored == 12

ProbeEnvs ==
  { [Env(TRUE, TRUE, None, p) EXCEPT !.MODEL_NAME = m] :
      p \in {None, Some(""), Some("You are a nurse.")},
      m \in {None, Some(""), Some("openai/gpt-4o")} }

ProbeInit ==
  /\ env \in ProbeEnvs
  /\ sembleService = None
  /\ llmService = None
  /\ clock = 0
  /\ store = <<>>
  /\ messages = [t \in Threads |-> <<>>]
  /\ user = [t \in Threads |-> None]
  /\ turn = [t \in Threads |-> IdleTurn]
  /\ started = 0
  /\ putLog = <<>>
  /\ probe = NoProbe

\* the value.text a stored item may carry: absent, empty, or a text
ItemTexts == {None, Some(""), Some("a"), Some("b")}

StoredItem(namespace, key, text) ==
  [namespace |-> namespace, key |-> key, value |-> [text |-> text, createdAt |-> 0]]

\* the search results of at most MaxItems items
SearchResults ==
  UNION { [1..n -> {StoredItem(getMemoryNamespace("alice"), "k", x) : x \in ItemTexts}] :
            n \in 0..MaxItems }

\* a store holding n memories of alice, numbered in insertion order, each
\* followed by one of bob
StoreOf(n) ==
  [i \in 1..(2 * n) |->
     IF i % 2 = 1
     THEN StoredItem(getMemoryNamespace("alice"), "mem_" \o ToString((i + 1) \div 2),
                     Some(ToString((i + 1) \div 2)))
     ELSE StoredItem(getMemoryNamespace("bob"), "mem_" \o ToString(i \div 2),
                     Some("x"))]

\* the Patients a lookup may answer with: every optional field absent,
\* empty or set (the names: absent or set)
Profiles ==
  { [ id |-> "jane", firstName |-> f, lastName |-> l, email |-> e, dob |-> d,
      gender |-> g ] :
      f \in {None, Some("Jane")}, l \in {None, Some("Doe")},
      e \in {None, Some(""), Some("jane@example.com")},
      d \in {None, Some(""), Some("1990-01-01")},
      g \in {None, Some(""), Some("Female")} }

\* conversation.ts 68-73 applied to a Patient
ApplyUserDetails ==
  /\ probe.op = "none"
  /\ \E u \in Profiles :
       probe' = [NoProbe EXCEPT !.op = "UserDetails", !.profile = Some(u),
                                !.out = UserDetails(u)]
  /\ UNCHANGED <<env, sembleService, llmService, clock, store, messages, user,
                 turn, started, putLog>>

\* the memories argument: none, one line, two lines
MemoryStrings == {"", "- a", "- a\n- b"}

\* configurable.systemPrompt: unset, empty, or a text
Overrides == {None, Some(""), Some("Be brief.")}

\* createSystemMessage(memories, user, systemPrompt)
ApplyCreateSystemMessage ==
  /\ probe.op = "none"
  /\ \E memories \in MemoryStrings, u \in {None} \cup {Some(x) : x \in Profiles},
        systemPrompt \in Overrides :
       LET message == createSystemMessage(memories, u, systemPrompt)
       IN  probe' = [NoProbe EXCEPT !.op = "createSystemMessage",
                                    !.memories = memories, !.profile = u,
                                    !.override = systemPrompt,
                                    !.role = message.role,
                                    !.out = message.content.text]
  /\ UNCHANGED <<env, sembleService, llmService, clock, store, messages, user,
                 turn, started, putLog>>

\* updates to the user field in one sequence
MaxUpdates == 3

\* the user a node's update carries: none, or a Patient
UserUpdates == {None, Some(CrmPatient("alice")), Some(MockPatient("bob"))}

\* the user field after the updates, each merged by the field's reducer
RECURSIVE ApplyUpdates(_, _)
ApplyUpdates(x, updates) ==
  IF updates = <<>> THEN x
  ELSE ApplyUpdates(userReducer(x, Head(updates)), Tail(updates))

\* state.ts 25-28: the user field, from its default, through a sequence of
\* updates
ApplyUserReducer ==
  /\ probe.op = "none"
  /\ \E updates \in UNION { [1..n -> UserUpdates] : n \in 0..MaxUpdates } :
       probe' = [NoProbe EXCEPT !.op = "userReducer", !.items = updates,
                                !.profile = ApplyUpdates(None, updates)]
  /\ UNCHANGED <<env, sembleService, llmService, clock, store, messages, user,
                 turn, started, putLog>>

\* configurable.model: unset, empty, or a name
ModelOverrides == {None, Some(""), Some("anthropic/claude-3.5-sonnet")}

\* conversation.ts 101-102: getLLMService().getModel(modelName)
ApplyGetModel ==
  /\ probe.op = "none"
  /\ \E modelName \in ModelOverrides :
       probe' = [NoProbe EXCEPT !.op = "getModel", !.override = modelName,
                                !.out = getModel(modelName)]
  /\ UNCHANGED <<env, sembleService, llmService, clock, store, messages, user,
                 turn, started, putLog>>

\* conversation.ts 135-136 and 65: getSystemPrompt(systemPrompt)
ApplyGetSystemPrompt ==
  /\ probe.op = "none"
  /\ \E systemPrompt \in Overrides :
       probe' = [NoProbe EXCEPT !.op = "getSystemPrompt", !.override = systemPrompt,
                                !.out = getSystemPrompt(systemPrompt)]
  /\ UNCHANGED <<env, sembleService, llmService, clock, store, messages, user,
                 turn, started, putLog>>

\* conversation.ts 116-127 applied to a search result
ApplyRenderMemories ==
  /\ probe.op = "none"
  /\ \E memories \in SearchResults :
       probe' = [NoProbe EXCEPT !.op = "RenderMemories", !.items = memories,
                                !.out = RenderMemories(memories)]
  /\ UNCHANGED <<env, sembleService, llmService, clock, store, messages, user,
                 turn, started, putLog>>

\* conversation.ts 111-127 applied to a store: the search, then the rendering
ApplySearch ==
  /\ probe.op = "none"
  /\ \E n \in 0..MaxStored :
       LET namespace == getMemoryNamespace("alice")
       IN  probe' = [NoProbe EXCEPT
             !.op = "search",
             !.items = InNamespace(StoreOf(n), namespace),
             !.out = RenderMemories(StoreSearch(StoreOf(n), namespace, SEARCH_LIMIT))]
  /\ UNCHANGED <<env, sembleService, llmService, clock, store, messages, user,
                 turn, started, putLog>>

ProbeNext ==
  \/ ApplyRenderMemories
  \/ ApplySearch
  \/ ApplyUserDetails
  \/ ApplyCreateSystemMessage
  \/ ApplyUserReducer
  \/ ApplyGetModel
  \/ ApplyGetSystemPrompt

(***************************************************************************)
(* Properties.                                                             *)
(***************************************************************************)
IsPrefix(a, b) == Len(a) <= Len(b) /\ SubSeq(b, 1, Len(a)) = a

Count(x, list) == Cardinality({ i \in 1..Len(list) : list[i] = x })

\* C1: whenever llm.invoke has answered, the node goes on to return (it
\* never fails afterwards), and the update it returns holds exactly one
\* message, the answer of llm.invoke, whatever the store did.
C1_DeltaIsTheReply ==
  \A t \in Threads :
    /\ turn[t].invoked = "ok" => turn[t].pc \in {"put", "returned"}
    /\ turn[t].pc = "returned" =>
         /\ turn[t].invoked = "ok"
         /\ turn[t].delta # None
         /\ Len(turn[t].delta[1]) = 1
         /\ turn[t].delta[1][1] = turn[t].response[1]
         /\ turn[t].delta[1][1].role = "ai"

\* a turn returned its update after both store.search and store.put threw
C1_Witness ==
  \E t \in Threads :
    turn[t].pc = "returned" /\ turn[t].searched = "threw" /\ turn[t].stored = "threw"

\* C2: no step of a run shortens, reorders or replaces an entry of the
\* thread's messages: the list before is a prefix of the list after (with a
\* checkpointer this holds across runs too), and merging a returned update
\* adds exactly its one message at the end.
C2_MessagesOnlyAppended ==
  [][ \A t \in Threads :
        /\ (turn[t].pc # "idle" \/ HasCheckpointer) => IsPrefix(messages[t], messages'[t])
        /\ (turn[t].pc = "returned" /\ turn'[t].pc = "idle") =>
             messages'[t] = messages[t] \o turn[t].delta[1]
    ]_vars

\* a thread on which two updates were merged, one after the other
C2_Witness ==
  \E t \in Threads :
    /\ turn[t].pc = "idle"
    /\ Len(messages[t]) >= 3
    /\ Cardinality({ i \in 1..Len(messages[t]) : messages[t][i].role = "ai" }) = 2

\* C3: when llm.invoke throws the turn fails with that error and returns
\* no update and no reply; a turn fails only because llm.invoke threw or
\* the provider credential is missing, never because getUser, store.search
\* or store.put threw.
C3_OnlyTheLLMFailsTheTurn ==
  \A t \in Threads :
    /\ turn[t].invoked = "threw" =>
         /\ turn[t].pc = "failed"
         /\ turn[t].error = "llm"
         /\ turn[t].delta = None
         /\ turn[t].response = None
    /\ turn[t].pc = "failed" =>
         \/ turn[t].invoked = "threw"
         \/ turn[t].error = "config" /\ ~env.OPENROUTER_API_KEY
    /\ (turn[t].invoked = "ok"
          /\ (turn[t].fetched = "threw" \/ turn[t].searched = "threw"
                \/ turn[t].stored = "threw")) => turn[t].pc # "failed"

\* a turn failed by llm.invoke after getUser and store.search had thrown
C3_Witness ==
  \E t \in Threads :
    /\ turn[t].pc = "failed" /\ turn[t].invoked = "threw"
    /\ turn[t].fetched = "threw" /\ turn[t].searched = "threw"

\* the instruction text a turn runs under, source by source
InstructionFor(override) ==
  IF override # None THEN override[1]
  ELSE IF env.SYSTEM_PROMPT # None THEN env.SYSTEM_PROMPT[1]
  ELSE "You are a helpful assistant."

\* the profile block of the thread's profile, if it has one
ProfileBlockOf(t) ==
  IF user[t] # None
  THEN "\n\nHere is some information about the user you are talking to:\n"
         \o UserDetails(user[t][1])
  ELSE ""

\* C4: without a store, after a search that threw, and after a search that
\* found nothing, memoriesText is "", the system message has no memory
\* block (its text is the instruction text and the profile block, nothing
\* more), and llm.invoke is issued; the turn fails only if llm.invoke
\* throws.  Without a store, search and put are never called.
C4_NoMemoriesDegradesToEmpty ==
  \A t \in Threads :
    /\ turn[t].searched \in {"skipped", "threw", "empty"} =>
         /\ turn[t].memoriesText = ""
         /\ Count("invoke", turn[t].calls) = 1
         /\ turn[t].llmInput[1].role = "system"
         /\ turn[t].llmInput[1].content.text
              = InstructionFor(turn[t].config.systemPrompt) \o ProfileBlockOf(t)
         /\ turn[t].pc \in {"invoke", "put", "returned", "failed"}
         /\ turn[t].pc = "failed" => turn[t].invoked = "threw"
    /\ ~HasStore =>
         /\ Count("search", turn[t].calls) = 0
         /\ Count("put", turn[t].calls) = 0
         /\ turn[t].searched \in {"none", "skipped"}
         /\ store = <<>>

\* a turn completed after its search threw, in a namespace that holds a memory
C4_Witness ==
  \E t \in Threads :
    /\ turn[t].pc = "returned" /\ turn[t].searched = "threw"
    /\ InNamespace(store, <<"memories", turn[t].clientId>>) # <<>>

\* "remember" occurs in s, each letter in either case
HasRememberAnyCase(s) ==
  \E i \in 1..(Len(s) - 7) :
    \A j \in 1..8 :
      SubSeq(s, i + j - 1, i + j - 1)
        \in { SubSeq("remember", j, j), SubSeq("REMEMBER", j, j) }

\* C5: once llm.invoke has answered, the turn has called store.put exactly
\* once if there is a store and the last incoming message has string
\* content with "remember" in it in any letter case, and not at all
\* otherwise (no store, no message, content that is not a string, no
\* "remember").
C5_PutExactlyWhenAsked ==
  \A t \in Threads :
    turn[t].invoked = "ok" =>
      LET msgs == messages[t]
          asked == /\ HasStore
                   /\ msgs # <<>>
                   /\ msgs[Len(msgs)].content.kind = "string"
                   /\ HasRememberAnyCase(msgs[Len(msgs)].content.text)
      IN  Count("put", turn[t].calls) = IF asked THEN 1 ELSE 0

\* a turn stored the upper-case "REMEMBER this"
C5_Witness ==
  \E t \in Threads :
    /\ turn[t].pc = "returned" /\ turn[t].stored = "ok"
    /\ turn[t].content = "REMEMBER this"

\* the last message of the list that a user wrote, if there is one
LastHuman(msgs) ==
  LET at == { i \in 1..Len(msgs) : msgs[i].role = "human" }
  IN  IF at = {} THEN None
      ELSE Some(msgs[CHOOSE i \in at : \A j \in at : j <= i])

\* C6: the text a turn tests for "remember" and hands to store.put is the
\* content of the last message of the incoming list that a user wrote,
\* never that of an assistant message.
C6_StoredTextIsUserAuthored ==
  \A t \in Threads :
    Count("put", turn[t].calls) = 1 =>
      /\ LastHuman(messages[t]) # None
      /\ LastHuman(messages[t])[1].content = StringContent(turn[t].content)
      /\ messages[t][Len(messages[t])].role = "human"

\* C7: when store.put settles, thrown or not, the node returns, and the
\* update it returns is the one message llm.invoke answered with: the same
\* update in both cases.
C7_PutFailureIsIgnored ==
  [][ \A t \in Threads :
        (turn[t].pc = "put" /\ turn'[t] # turn[t]) =>
          /\ turn'[t].pc = "returned"
          /\ turn'[t].stored \in {"ok", "threw"}
          /\ turn'[t].error = "none"
          /\ turn'[t].delta = Some(<<turn[t].response[1]>>)
    ]_vars

\* a turn returned its update after store.put threw
C7_Witness ==
  \E t \in Threads :
    /\ turn[t].pc = "returned" /\ turn[t].stored = "threw"
    /\ turn[t].delta = Some(<<turn[t].response[1]>>)

\* configurable.clientId, or "default" when there is none
EffectiveClientId(config) ==
  IF config.clientId = None THEN "default" ELSE config.clientId[1]

\* C8: the item a turn prepares has as text the whole content of the last
\* incoming message and as key "mem_" followed by the millisecond read at
\* that moment, and a put that succeeds leaves exactly that item under that
\* key in the namespace ["memories", clientId] of the turn's client id.
C8_WhatIsWritten ==
  [][ \A t \in Threads :
        /\ (turn[t].pc = "invoke" /\ turn'[t].pc = "put") =>
             /\ turn'[t].memoryItem.text
                  = Some(messages[t][Len(messages[t])].content.text)
             /\ turn'[t].memoryId = "mem_" \o ToString(clock')
        /\ (turn[t].pc = "put" /\ turn'[t].stored = "ok") =>
             \E i \in 1..Len(store') :
               store'[i] = [ namespace |-> <<"memories", EffectiveClientId(turn[t].config)>>,
                             key |-> turn[t].memoryId,
                             value |-> turn[t].memoryItem ]
    ]_vars

\* the store holds a memory of the default client and one of alice
C8_Witness ==
  /\ \E i \in 1..Len(store) :
       /\ store[i].namespace = <<"memories", "default">>
       /\ store[i].key = "mem_1"
       /\ store[i].value.text = Some("Please remember I like tea")
  /\ \E i \in 1..Len(store) : store[i].namespace = <<"memories", "alice">>

\* the puts that succeeded in a namespace
PutsInto(namespace) == SelectSeq(putLog, LAMBDA p : p.namespace = namespace)

\* C9: every put that succeeds adds an item: a namespace holds as many
\* items as puts into it have succeeded.
C9_EveryWriteAddsAnItem ==
  \A i \in 1..Len(putLog) :
    Len(InNamespace(store, putLog[i].namespace)) = Len(PutsInto(putLog[i].namespace))

\* C10: two writes into one namespace in the same millisecond have the same
\* key, and a put under a key the namespace already holds replaces that
\* item, adds none, and the turn returns its update as after any put.
C10_SameMillisecondOverwrites ==
  [][ /\ \A i, j \in 1..Len(putLog) :
           (putLog[i].namespace = putLog[j].namespace /\ putLog[i].now = putLog[j].now)
             => putLog[i].key = putLog[j].key
      /\ \A t \in Threads :
           LET namespace == <<"memories", turn[t].clientId>>
               at == EntryIndex(store, namespace, turn[t].memoryId)
           IN  (turn[t].pc = "put" /\ turn'[t].stored = "ok" /\ at # 0) =>
                 /\ Len(store') = Len(store)
                 /\ store'[at].value = turn[t].memoryItem
                 /\ \A k \in 1..Len(store) : k # at => store'[k] = store[k]
                 /\ turn'[t].pc = "returned"
                 /\ turn'[t].error = "none"
    ]_vars

\* two puts into one namespace succeeded in the same millisecond and the
\* namespace holds one item, the text of the second
C10_Witness ==
  /\ Len(putLog) = 2
  /\ putLog[1].namespace = putLog[2].namespace
  /\ putLog[1].now = putLog[2].now
  /\ Len(store) = 1
  /\ \E t \in Threads : turn[t].stored = "ok" /\ store[1].value = turn[t].memoryItem

\* the text of each item of a search result, absent or not
TextsOf(items) == [i \in 1..Len(items) |-> items[i].value.text]

\* the texts that are present and not empty, in order
KeptTexts(items) ==
  LET kept == SelectSeq(TextsOf(items), LAMBDA x : x # None /\ x # Some(""))
  IN  [i \in 1..Len(kept) |-> kept[i][1]]

\* one "- text" line per text, a newline between two lines
RECURSIVE Bullets(_)
Bullets(texts) ==
  IF texts = <<>> THEN ""
  ELSE "- " \o texts[1]
       \o (IF Len(texts) > 1 THEN "\n" \o Bullets(Tail(texts)) ELSE "")

FirstN(list, n) == SubSeq(list, 1, IF Len(list) < n THEN Len(list) ELSE n)

\* C11: the memory text is one "- text" line per item of the search result
\* whose value.text is present and not empty, in the order of the result,
\* joined by newlines, and "" when no item survives ([a, "", b] gives
\* "- a\n- b"); the search hands over at most the first 10 items of the
\* client's namespace.
C11_MemoryTextIsTheBulletList ==
  /\ probe.op = "RenderMemories" =>
       /\ probe.out = Bullets(KeptTexts(probe.items))
       /\ (KeptTexts(probe.items) = <<>>) <=> (probe.out = "")
       /\ TextsOf(probe.items) = <<Some("a"), Some(""), Some("b")>>
            => probe.out = "- a\n- b"
  /\ probe.op = "search" =>
       probe.out = Bullets(KeptTexts(FirstN(probe.items, 10)))

C11_Witness ==
  /\ probe.op = "RenderMemories"
  /\ TextsOf(probe.items) = <<Some("a"), Some(""), Some("b")>>
  /\ probe.out = "- a\n- b"

\* more memories stored than one search returns
C11_LimitReached ==
  /\ probe.op = "search"
  /\ Len(probe.items) > 10
  /\ probe.out = "- 1\n- 2\n- 3\n- 4\n- 5\n- 6\n- 7\n- 8\n- 9\n- 10"

StartsWith(str, prefix) ==
  Len(str) >= Len(prefix) /\ SubSeq(str, 1, Len(prefix)) = prefix

EndsWith(str, suffix) ==
  Len(str) >= Len(suffix) /\ SubSeq(str, Len(str) - Len(suffix) + 1, Len(str)) = suffix

\* a field that is set to a non-empty string
Present(field) == field # None /\ field # Some("")

\* the line of an optional field, with the newline that precedes it
FieldLine(label, field) ==
  IF Present(field) THEN "\n" \o label \o ": " \o field[1] ELSE ""

OptionalLines(u) ==
  FieldLine("Email", u.email) \o FieldLine("DOB", u.dob) \o FieldLine("Gender", u.gender)

\* C12: the profile block is the line "User Name: {firstName} {lastName}",
\* then, in this order and newline-joined, "Email: ...", "DOB: ..." and
\* "Gender: ...", each there exactly when its field is set (to a non-empty
\* string); an omitted field leaves no blank line and no empty label; a
\* profile with only the names Jane and Doe gives "User Name: Jane Doe".
C12_ProfileBlockLines ==
  probe.op = "UserDetails" =>
    LET u == probe.profile[1]
    IN  /\ StartsWith(probe.out, "User Name: ")
        /\ EndsWith(probe.out, OptionalLines(u))
        /\ (u.firstName # None /\ u.lastName # None) =>
              probe.out = "User Name: " \o u.firstName[1] \o " " \o u.lastName[1]
                            \o OptionalLines(u)
        /\ Includes(probe.out, "Email: ") <=> Present(u.email)
        /\ Includes(probe.out, "DOB: ") <=> Present(u.dob)
        /\ Includes(probe.out, "Gender: ") <=> Present(u.gender)
        /\ ~Includes(probe.out, "\n\n")
        /\ ~EndsWith(probe.out, "\n")
        /\ (u.firstName = Some("Jane") /\ u.lastName = Some("Doe")
             /\ ~Present(u.email) /\ ~Present(u.dob) /\ ~Present(u.gender))
            => probe.out = "User Name: Jane Doe"

\* a profile with a field left out between two that are set
C12_Witness ==
  /\ probe.op = "UserDetails"
  /\ probe.profile[1].email = Some("jane@example.com")
  /\ probe.profile[1].dob = None
  /\ probe.out = "User Name: Jane Doe\nEmail: jane@example.com\nGender: Female"

\* C13: the system message is one message of role system whose text is the
\* instruction text, then the profile block (blank line, header, lines)
\* exactly when a profile is given, then the memory block (blank line,
\* header, memory text) exactly when the memory text is not empty, in that
\* order and with nothing else; with neither it is the instruction text.
C13_SystemMessageComposition ==
  probe.op = "createSystemMessage" =>
    LET instruction == InstructionFor(probe.override)
        profileBlock ==
          IF probe.profile # None
          THEN "\n\nHere is some information about the user you are talking to:\n"
                 \o UserDetails(probe.profile[1])
          ELSE ""
        memoryBlock ==
          IF probe.memories # ""
          THEN "\n\nWhat you remember about this user:\n" \o probe.memories
          ELSE ""
    IN  /\ probe.role = "system"
        /\ probe.out = instruction \o profileBlock \o memoryBlock
        /\ Includes(probe.out, "Here is some information about the user")
             <=> probe.profile # None
        /\ Includes(probe.out, "What you remember about this user:")
             <=> probe.memories # ""
        /\ (probe.profile = None /\ probe.memories = "") => probe.out = instruction
        /\ ~EndsWith(probe.out, "\n")

\* a profile and no memories: the text ends with the profile's last line
C13_Witness ==
  /\ probe.op = "createSystemMessage"
  /\ probe.profile # None
  /\ probe.memories = ""
  /\ probe.override = Some("Be brief.")
  /\ probe.out = "Be brief.\n\nHere is some information about the user you are talking to:\nUser Name: Jane Doe"

\* the namespaces of the clients that name themselves
NamedNamespaces == {<<"memories", "alice">>}

\* what a turn without a clientId does with the store: it searches and
\* writes the namespace ["memories", "default"] and no other
DefaultNamespaceUsed(t) ==
  /\ (turn[t].pc = "search" /\ turn'[t].searched \in {"empty", "found"}) =>
       turn'[t].memoriesText
         = Bullets(KeptTexts(FirstN(InNamespace(store, <<"memories", "default">>), 10)))
  /\ (turn[t].pc = "put" /\ turn'[t].stored = "ok") =>
       /\ \E i \in 1..Len(store') :
            /\ store'[i].namespace = <<"memories", "default">>
            /\ store'[i].key = turn[t].memoryId
       /\ \A ns \in NamedNamespaces : InNamespace(store', ns) = InNamespace(store, ns)
  /\ turn'[t].pc = "failed" =>
       (turn'[t].invoked = "threw" \/ ~env.OPENROUTER_API_KEY)

\* C14 as stated: a turn whose config carries no clientId searches and
\* writes the namespace ["memories", "default"], raises no error on that
\* account, and its profile lookup is made as well, for "default".
C14_LookupMadeForDefault ==
  [][ \A t \in Threads :
        (turn[t].config.clientId = None /\ turn[t].pc # "idle") =>
          /\ DefaultNamespaceUsed(t)
          /\ (turn[t].pc = "fetchUserNode" /\ turn'[t] # turn[t]) =>
               (turn'[t].pc = "getUser" /\ Count("getUser", turn'[t].calls) = 1)
    ]_vars

\* C14, amended: a turn whose config carries no clientId searches and
\* writes the namespace ["memories", "default"] and raises no error on that
\* account; its profile lookup is not made at all.
C14_DefaultClientId ==
  [][ \A t \in Threads :
        (turn[t].config.clientId = None /\ turn[t].pc # "idle") =>
          /\ DefaultNamespaceUsed(t)
          /\ (turn[t].pc = "fetchUserNode" /\ turn'[t] # turn[t]) =>
               (turn'[t].fetched = "skipped" /\ turn'[t].pc = "conversationNode")
          /\ Count("getUser", turn'[t].calls) = 0
    ]_vars

\* a turn without a clientId has found the default client's memory, while
\* the store also holds one of alice, and has returned its reply
C14_Witness ==
  \E t \in Threads :
    /\ turn[t].config.clientId = None
    /\ turn[t].pc = "returned"
    /\ turn[t].searched = "found"
    /\ turn[t].memoriesText = "- Please remember I like tea"
    /\ turn[t].calls = <<"search", "invoke", "put">>
    /\ turn[t].stored = "ok"

\* C15: the profile fetch never fails the turn: whether the lookup throws,
\* answers absent or answers a profile, the node hands over to the
\* conversation node without an error; its update is empty (the thread's
\* profile stays what it was) when the lookup threw or answered absent,
\* and is the profile looked up exactly when the lookup answered one.
C15_FetchNeverRaises ==
  [][ \A t \in Threads :
        /\ (turn[t].pc = "fetchUserNode" /\ turn'[t] # turn[t]) =>
             /\ turn'[t].pc \in {"getUser", "conversationNode"}
             /\ turn'[t].error = "none"
             /\ user'[t] = user[t]
        /\ (turn[t].pc = "getUser" /\ turn'[t] # turn[t]) =>
             /\ turn'[t].pc = "conversationNode"
             /\ turn'[t].error = "none"
             /\ turn'[t].fetched \in {"found", "absent", "threw"}
             /\ turn'[t].fetched = "found" =>
                  /\ user'[t] # None
                  /\ user'[t][1].id = turn[t].config.clientId[1]
             /\ turn'[t].fetched # "found" => user'[t] = user[t]
    ]_vars

\* a thread that holds a profile; the lookup of its next turn answered
\* absent, the profile is still there and the turn has returned its reply
C15_Witness ==
  \E t \in Threads :
    /\ turn[t].fetched = "absent"
    /\ turn[t].pc = "returned"
    /\ user[t] # None

\* the lookup threw and the turn went on to call the LLM
C15_ThrowSurvived ==
  \E t \in Threads : turn[t].fetched = "threw" /\ turn[t].invoked = "ok"

\* C16: when the turn's clientId is absent or the empty string, the
\* profile fetch does not call the lookup and returns an empty update.
C16_NoClientIdNoLookup ==
  [][ \A t \in Threads :
        turn[t].config.clientId \in {None, Some("")} =>
          /\ (turn[t].pc = "fetchUserNode" /\ turn'[t] # turn[t]) =>
               /\ turn'[t].pc = "conversationNode"
               /\ turn'[t].fetched = "skipped"
               /\ user'[t] = user[t]
          /\ Count("getUser", turn'[t].calls) = 0
    ]_vars

\* a turn whose clientId is the empty string has skipped the lookup on a
\* thread that holds a profile, and has returned its reply
C16_Witness ==
  \E t \in Threads :
    /\ turn[t].config.clientId = Some("")
    /\ turn[t].fetched = "skipped"
    /\ turn[t].pc = "returned"
    /\ user[t] # None

\* the positions of the updates that carry a profile
Carrying(updates) == {i \in 1..Len(updates) : updates[i] # None}

\* C17: the profile field merges an update as "new if present, else old":
\* after a sequence of updates the profile is the one of the last update
\* that carried a profile, and absent if none did.
C17_ProfileIsLastCarried ==
  probe.op = "userReducer" =>
    LET updates == probe.items
    IN  IF Carrying(updates) = {}
        THEN probe.profile = None
        ELSE \E i \in Carrying(updates) :
               /\ \A j \in Carrying(updates) : j <= i
               /\ probe.profile = updates[i]

\* a profile, then another, then an update without one
C17_Witness ==
  /\ probe.op = "userReducer"
  /\ Len(probe.items) = 3
  /\ probe.items[1] # None /\ probe.items[2] # None
  /\ probe.items[1] # probe.items[2]
  /\ probe.items[3] = None
  /\ probe.profile = probe.items[2]

\* C18: a process whose provider credential is missing fails when it
\* starts, not when a turn calls the LLM service: it never starts a turn and
\* never issues a memory search.
C18_NoTurnWithoutCredential ==
  ~env.OPENROUTER_API_KEY =>
    /\ started = 0
    /\ \A t \in Threads :
         turn[t].pc = "idle" /\ Count("search", turn[t].calls) = 0

\* the part of C18 the code keeps: without the credential no memory
\* search, no LLM call and no memory write is ever issued
C18_NoSearchWithoutCredential ==
  ~env.OPENROUTER_API_KEY =>
    /\ store = <<>>
    /\ \A t \in Threads :
         /\ Count("search", turn[t].calls) = 0
         /\ Count("invoke", turn[t].calls) = 0
         /\ Count("put", turn[t].calls) = 0

\* without the credential a turn has run the profile lookup and failed in
\* conversationNode
C18_TurnFailedAtCallTime ==
  \E t \in Threads :
    /\ ~env.OPENROUTER_API_KEY
    /\ turn[t].pc = "failed"
    /\ turn[t].error = "config"
    /\ turn[t].calls = <<"getUser">>

\* C19: the model identifier is the caller's model override when there is
\* one, else MODEL_NAME of the process when it is set, else
\* "google/gemini-2.5-flash-lite"; a later source is used only when every
\* earlier one is absent.
C19_ModelResolutionOrder ==
  probe.op = "getModel" =>
    /\ probe.override # None => probe.out = probe.override[1]
    /\ (probe.override = None /\ env.MODEL_NAME # None)
         => probe.out = env.MODEL_NAME[1]
    /\ (probe.override = None /\ env.MODEL_NAME = None)
         => probe.out = "google/gemini-2.5-flash-lite"
    /\ probe.out = "google/gemini-2.5-flash-lite"
         => (probe.override = None /\ env.MODEL_NAME = None)

\* MODEL_NAME is set and the caller's override wins
C19_Witness ==
  /\ probe.op = "getModel"
  /\ env.MODEL_NAME = Some("openai/gpt-4o")
  /\ probe.override = Some("anthropic/claude-3.5-sonnet")
  /\ probe.out = "anthropic/claude-3.5-sonnet"

\* C20: the instruction text is the caller's systemPrompt override when
\* there is one, else SYSTEM_PROMPT of the process when it is set, else
\* "You are a helpful assistant."; a later source is used only when every
\* earlier one is absent.
C20_InstructionResolutionOrder ==
  probe.op = "getSystemPrompt" =>
    /\ probe.override # None => probe.out = probe.override[1]
    /\ (probe.override = None /\ env.SYSTEM_PROMPT # None)
         => probe.out = env.SYSTEM_PROMPT[1]
    /\ (probe.override = None /\ env.SYSTEM_PROMPT = None)
         => probe.out = "You are a helpful assistant."
    /\ probe.out = "You are a helpful assistant."
         => (probe.override = None /\ env.SYSTEM_PROMPT = None)

\* no override: the process default is used
C20_Witness ==
  /\ probe.op = "getSystemPrompt"
  /\ probe.override = None
  /\ env.SYSTEM_PROMPT = Some("You are a nurse.")
  /\ probe.out = "You are a nurse."

\* the two outcomes of a turn: the update holds the whole reply of the
\* LLM, or the turn failed on the chat provider (its call threw, or its
\* service could not be built) and there is no update
ReturnedTheReply(tr) ==
  /\ tr.pc = "returned"
  /\ tr.invoked = "ok"
  /\ tr.delta # None
  /\ Len(tr.delta[1]) = 1
  /\ tr.delta[1][1] = tr.response[1]
  /\ tr.delta[1][1].role = "ai"
  /\ \E reply \in Replies : tr.delta[1][1].content = StringContent(reply)

FailedOnTheProvider(tr) ==
  /\ tr.pc = "failed"
  /\ tr.delta = None
  /\ tr.response = None
  /\ tr.stored = "none"
  /\ \/ tr.invoked = "threw" /\ tr.error = "llm"
     \/ tr.invoked = "none" /\ tr.error = "config" /\ ~env.OPENROUTER_API_KEY

\* C21: a turn ends (its run settles) in exactly one of two ways: with an
\* update that holds the whole reply of the LLM, or failed on the chat
\* provider with no update; whatever the store did (absent, search threw,
\* put threw) the update is that reply, unaltered, and a turn whose LLM call
\* answered never fails.
C21_ReplyOrProviderFailure ==
  [][ \A t \in Threads :
        /\ (turn[t].pc # "idle" /\ turn'[t].pc = "idle") =>
             /\ ReturnedTheReply(turn[t]) \/ FailedOnTheProvider(turn[t])
             /\ ~(ReturnedTheReply(turn[t]) /\ FailedOnTheProvider(turn[t]))
        /\ turn'[t].pc = "returned" => ReturnedTheReply(turn'[t])
        /\ turn'[t].pc = "failed" => FailedOnTheProvider(turn'[t])
        /\ turn[t].invoked = "ok" => turn'[t].pc \in {"put", "returned", "idle"}
    ]_vars

\* a turn found memories, its put threw, and it returned the reply
C21_Witness ==
  \E t \in Threads :
    /\ turn[t].pc = "returned"
    /\ turn[t].searched = "found"
    /\ turn[t].stored = "threw"
    /\ turn[t].delta[1][1].content.text = "I will remember that."

\* the memory block of a system message text, "" when it has none
MemoryBlockOf(text, memoriesText) ==
  IF memoriesText # ""
       /\ EndsWith(text, "\n\nWhat you remember about this user:\n" \o memoriesText)
  THEN memoriesText
  ELSE ""

\* C22 as stated: every memory written with success for a client is in
\* the memory block of the system prompt of every later turn of that
\* client, on any thread, whose search succeeds.
C22_EveryMemoryInEveryLaterPrompt ==
  [][ \A t \in Threads :
        (turn[t].pc = "search" /\ turn'[t].searched \in {"empty", "found"}) =>
          \A j \in 1..Len(putLog) :
            putLog[j].namespace = <<"memories", turn[t].clientId>> =>
              \E i \in 1..Len(store) :
                /\ store[i].namespace = putLog[j].namespace
                /\ store[i].key = putLog[j].key
                /\ Includes(MemoryBlockOf(turn'[t].llmInput[1].content.text,
                                          turn'[t].memoriesText),
                            "- " \o store[i].value.text[1])
    ]_vars

\* C22, amended: the memory block of a turn whose search succeeds lists
\* the first 10 items then stored in the namespace of the turn's client,
\* whichever thread wrote them and whichever thread reads them; a memory
\* written with success is in the block of a later turn of that client as
\* long as it is among those 10.
C22_FirstTenMemoriesInLaterPrompts ==
  [][ \A t \in Threads :
        (turn[t].pc = "search" /\ turn'[t].searched \in {"empty", "found"}) =>
          LET stored == InNamespace(store, <<"memories", turn[t].clientId>>)
              block == MemoryBlockOf(turn'[t].llmInput[1].content.text,
                                     turn'[t].memoriesText)
          IN  /\ block = Bullets(KeptTexts(FirstN(stored, 10)))
              /\ \A j \in 1..Len(putLog) :
                   \A i \in 1..Len(stored) :
                     (i <= 10 /\ stored[i].key = putLog[j].key
                        /\ putLog[j].namespace = stored[i].namespace) =>
                       Includes(block, "- " \o stored[i].value.text[1])
    ]_vars

\* alice's memory was written on one thread and is in the prompt of her
\* later turn on the other thread
C22_Witness ==
  \E t \in Threads :
    /\ turn[t].pc = "invoke"
    /\ turn[t].clientId = "alice"
    /\ messages[t] # <<>>
    /\ messages[t][Len(messages[t])].content.text = "What's the weather?"
    /\ Len(messages[t]) = 1
    /\ Len(putLog) = 1
    /\ turn[t].memoriesText = "- Please remember I like tea"
    /\ EndsWith(turn[t].llmInput[1].content.text,
                "What you remember about this user:\n- Please remember I like tea")

\* alice's eleventh memory was written and her later turn does not show it
C22_EleventhMemoryNotShown ==
  \E t \in Threads :
    /\ turn[t].pc = "invoke"
    /\ turn[t].clientId = "alice"
    /\ turn[t].searched = "found"
    /\ \E j \in 1..Len(putLog) : putLog[j].namespace = <<"memories", "alice">>
    /\ ~Includes(turn[t].memoriesText, "tea")

\* the store was not available to the turn: none configured, or its search threw
StoreUnavailable(tr) == tr.searched \in {"skipped", "threw"}

\* the turn has assembled its system message
Assembled(tr) == tr.llmInput # <<>>

\* C23: a conversation node call without an available store assembles a
\* system message that is the instruction text followed by the profile
\* block of the state's profile, with no memory block, and it is the
\* system message of any other call made with the same state and the same
\* config that had no store available either.
C23_SameSystemMessageWithoutStore ==
  [][ \A t \in Threads :
        (~Assembled(turn[t]) /\ Assembled(turn'[t]) /\ StoreUnavailable(turn'[t])) =>
          LET systemMessage == turn'[t].llmInput[1]
          IN  /\ systemMessage.role = "system"
              /\ systemMessage.content.text =
                   InstructionFor(turn[t].config.systemPrompt) \o ProfileBlockOf(t)
              /\ turn'[t].memoriesText = ""
              /\ \A u \in Threads :
                   ( /\ Assembled(turn[u]) /\ StoreUnavailable(turn[u])
                     /\ turn[u].config = turn[t].config
                     /\ user[u] = user[t]
                     /\ Tail(turn[u].llmInput) = messages[t] ) =>
                     turn[u].llmInput[1] = systemMessage
    ]_vars

\* two calls with the same state and config, the search of both threw,
\* and both carry the same system message with a profile block
C23_Witness ==
  \E t, u \in Threads :
    /\ t # u
    /\ Assembled(turn[t]) /\ Assembled(turn[u])
    /\ turn[t].searched = "threw" /\ turn[u].searched = "threw"
    /\ turn[t].config = turn[u].config
    /\ user[t] # None /\ user[t] = user[u]
    /\ Tail(turn[t].llmInput) = Tail(turn[u].llmInput)
    /\ turn[t].llmInput[1] = turn[u].llmInput[1]
    /\ turn[t].llmInput[1].content.text # InstructionFor(turn[t].config.systemPrompt)

\* C24: a turn calls llm.invoke once (never twice; not at all only when
\* the LLM service could not be constructed), and the list it passes is
\* the assembled system message followed by state.messages, every message
\* in its place; the list and state.messages stay as they are while the
\* call is in flight.
C24_InvokedOnceWithTheWholeConversation ==
  [][ \A t \in Threads :
        /\ Count("invoke", turn'[t].calls) <= 1
        /\ (Count("invoke", turn[t].calls) = 0 /\ Count("invoke", turn'[t].calls) = 1) =>
             /\ turn'[t].pc = "invoke"
             /\ Len(turn'[t].llmInput) = Len(messages[t]) + 1
             /\ turn'[t].llmInput[1].role = "system"
             /\ turn'[t].llmInput[1] =
                  createSystemMessage(turn'[t].memoriesText, user[t],
                                      turn[t].config.systemPrompt)
             /\ \A i \in 1..Len(messages[t]) : turn'[t].llmInput[i + 1] = messages[t][i]
             /\ messages'[t] = messages[t]
        /\ (Assembled(turn[t]) /\ turn'[t].pc # "idle") =>
             turn'[t].llmInput = turn[t].llmInput
        /\ (turn[t].pc # "idle" /\ turn'[t].pc = "idle") =>
             \/ Count("invoke", turn[t].calls) = 1
             \/ /\ Count("invoke", turn[t].calls) = 0
                /\ turn[t].error = "config"
                /\ ~env.OPENROUTER_API_KEY
    ]_vars

\* the second turn of a thread: llm.invoke is in flight with the system
\* message and the three messages of the conversation so far
C24_Witness ==
  \E t \in Threads :
    /\ turn[t].pc = "invoke"
    /\ Len(messages[t]) = 3
    /\ turn[t].llmInput = <<turn[t].llmInput[1]>> \o messages[t]
    /\ messages[t][1].role = "human" /\ messages[t][2].role = "ai"
    /\ messages[t][3].role = "human"
    /\ turn[t].calls[Len(turn[t].calls)] = "invoke"

\* the order of a turn's external calls
CallOrder == <<"getUser", "search", "invoke", "put">>

Rank(call) == CHOOSE i \in 1..Len(CallOrder) : CallOrder[i] = call

LastCall(tr) == tr.calls[Len(tr.calls)]

\* C25: the external calls of a turn are issued one after the other, each
\* at most once and in the order lookup, search, llm.invoke, put: llm.invoke
\* is issued only once the search, if any, has settled, and put only once
\* llm.invoke has answered; while a call is in flight it is the last one
\* issued and has not settled.
C25_CallsInStrictSequence ==
  [][ \A t \in Threads :
        LET tr == turn'[t]
        IN  /\ \A i, j \in 1..Len(tr.calls) :
                 i < j => Rank(tr.calls[i]) < Rank(tr.calls[j])
            /\ (Len(tr.calls) > Len(turn[t].calls)) =>
                 /\ Len(tr.calls) = Len(turn[t].calls) + 1
                 /\ LastCall(tr) = "search" =>
                      /\ turn[t].pc = "conversationNode"
                      /\ tr.searched = "none" /\ tr.invoked = "none" /\ tr.stored = "none"
                 /\ LastCall(tr) = "invoke" =>
                      /\ turn[t].pc \in {"conversationNode", "search"}
                      /\ Count("search", turn[t].calls) = 1 =>
                           turn[t].pc = "search"
                             /\ tr.searched \in {"threw", "empty", "found"}
                      /\ Count("search", turn[t].calls) = 0 => tr.searched = "skipped"
                      /\ tr.invoked = "none" /\ tr.stored = "none"
                 /\ LastCall(tr) = "put" =>
                      /\ turn[t].pc = "invoke"
                      /\ tr.invoked = "ok" /\ tr.response # None
                      /\ tr.stored = "none"
            /\ tr.pc = "search" => LastCall(tr) = "search" /\ tr.searched = "none"
            /\ tr.pc = "invoke" => LastCall(tr) = "invoke" /\ tr.invoked = "none"
            /\ tr.pc = "put" => LastCall(tr) = "put" /\ tr.stored = "none"
    ]_vars

\* a turn that made the search, llm.invoke and the put, in that order
C25_Witness ==
  \E t \in Threads :
    /\ turn[t].pc = "returned"
    /\ turn[t].calls = <<"search", "invoke", "put">>
    /\ turn[t].searched = "found"
    /\ turn[t].invoked = "ok"
    /\ turn[t].stored = "ok"

\* C26: the step on which llm.invoke throws leaves the store as it is and
\* fails the turn with no put issued; the store changes only on the put of
\* a turn whose llm.invoke answered, so from its start to its end a turn
\* whose llm.invoke threw writes nothing, "remember" or not.
C26_FailedTurnWritesNothing ==
  [][ \A t \in Threads :
        /\ (turn[t].pc = "invoke" /\ turn'[t].invoked = "threw") =>
             /\ store' = store /\ putLog' = putLog
             /\ turn'[t].pc = "failed"
             /\ Count("put", turn'[t].calls) = 0
             /\ turn'[t].stored = "none"
        /\ (turn[t].invoked = "threw" /\ turn'[t] # turn[t]) =>
             /\ turn'[t].pc = "idle"
             /\ store' = store /\ putLog' = putLog
        /\ store' # store =>
             \E u \in Threads :
               /\ turn[u].pc = "put" /\ turn[u].invoked = "ok"
               /\ turn'[u].stored = "ok"
    ]_vars

\* llm.invoke threw on a turn with a store whose last message asks to
\* remember
C26_Witness ==
  \E t \in Threads :
    /\ turn[t].pc = "failed"
    /\ turn[t].invoked = "threw"
    /\ turn[t].searched = "found"
    /\ HasStore
    /\ WantsMemory(LastContent(messages[t]))
    /\ store # <<>>

\* the clients of the turns against the written store
MemoryClients == {"alice", "bob"}

\* C27: a turn for a client searches and writes the namespace
\* <<"memories", client>> and no other: the memory block of its prompt is
\* made of the items of that namespace and holds no item of another
\* client's, its put changes no other namespace, and a client's namespace
\* changes only on the put of a turn for that client.
C27_NamespacesAreIsolated ==
  [][ \A t \in Threads :
        LET own == <<"memories", turn[t].clientId>>
        IN  /\ turn[t].pc \in {"search", "invoke", "put"} =>
                 /\ turn[t].config.clientId # None
                 /\ turn[t].clientId = turn[t].config.clientId[1]
            /\ (turn[t].pc = "search" /\ turn'[t].pc = "invoke") =>
                 LET block == MemoryBlockOf(turn'[t].llmInput[1].content.text,
                                            turn'[t].memoriesText)
                 IN  /\ turn'[t].searched # "threw" =>
                          block = Bullets(KeptTexts(FirstN(InNamespace(store, own), 10)))
                     /\ \A i \in 1..Len(store) :
                          store[i].namespace # own =>
                            ~Includes(block, "- " \o store[i].value.text[1])
            /\ (turn[t].pc = "put" /\ turn'[t].pc # "put") =>
                 /\ \A c \in MemoryClients \ {turn[t].clientId} :
                      InNamespace(store', <<"memories", c>>)
                        = InNamespace(store, <<"memories", c>>)
                 /\ turn'[t].stored = "ok" =>
                      /\ putLog'[Len(putLog')].namespace = own
                      /\ \E i \in 1..Len(store') :
                           /\ store'[i].namespace = own
                           /\ store'[i].key = turn[t].memoryId
                           /\ store'[i].value = turn[t].memoryItem
                      /\ Len(store') =
                           Len(InNamespace(store', <<"memories", "alice">>))
                             + Len(InNamespace(store', <<"memories", "bob">>))
            /\ \A c \in MemoryClients :
                 InNamespace(store', <<"memories", c>>) # InNamespace(store, <<"memories", c>>) =>
                   \E u \in Threads : turn[u].pc = "put" /\ turn[u].clientId = c
    ]_vars

\* bob's memory was written in this run, and alice's later turn has a
\* memory block made of her own ten memories only
C27_Witness ==
  \E t \in Threads :
    /\ turn[t].pc = "invoke"
    /\ turn[t].clientId = "alice"
    /\ turn[t].searched = "found"
    /\ Len(putLog) = 1
    /\ putLog[1].namespace = <<"memories", "bob">>
    /\ \E i \in 1..Len(store) :
         store[i].namespace = <<"memories", "bob">>
           /\ store[i].value.text = Some(StringContent("REMEMBER this").text)
    /\ turn[t].memoriesText = "- 1\n- 2\n- 3\n- 4\n- 5\n- 6\n- 7\n- 8\n- 9\n- 10"

\* the system prompt of the thread's turn carries the profile block of the
\* profile in the thread's state
ProfileInjected(t) ==
  /\ Assembled(turn[t])
  /\ user[t] # None
  /\ StartsWith(turn[t].llmInput[1].content.text,
                InstructionFor(turn[t].config.systemPrompt) \o ProfileBlockOf(t))

C28_OtherProfileOnlyWhenCarried ==
  \A t \in Threads :
    (ProfileInjected(t) /\ turn[t].config.clientId # Some(user[t][1].id)) =>
      /\ turn[t].fetched \in {"skipped", "threw", "absent"}
      /\ HasCheckpointer

\* alice's profile is in the prompt of a turn invoked for bob whose lookup
\* threw
C28_ProfileOfAnotherClient ==
  \E t \in Threads :
    /\ ProfileInjected(t)
    /\ turn[t].config.clientId = Some("bob")
    /\ turn[t].fetched = "threw"
    /\ user[t][1].id = "alice"

\* the content of the last message when it is a string with "remember" in
\* it, in any letter case
AsksToRemember(msgs) ==
  /\ msgs # <<>>
  /\ msgs[Len(msgs)].content.kind = "string"
  /\ HasRememberAnyCase(msgs[Len(msgs)].content.text)

\* C29: on a turn whose search threw, when llm.invoke answers and the last
\* message contains "remember", the put is issued, with the content of
\* that message, and by the end of the turn it has been issued exactly
\* once and has settled.
C29_FailedSearchDoesNotSuppressThePut ==
  [][ \A t \in Threads :
        /\ ( /\ turn[t].pc = "invoke" /\ turn'[t].invoked = "ok"
             /\ turn[t].searched = "threw"
             /\ AsksToRemember(messages[t]) ) =>
             /\ turn'[t].pc = "put"
             /\ turn'[t].calls = <<"search", "invoke", "put">>
                  \/ turn'[t].calls = <<"getUser", "search", "invoke", "put">>
             /\ turn'[t].memoryItem.text = Some(messages[t][Len(messages[t])].content.text)
        /\ ( /\ turn[t].pc = "put" /\ turn[t].searched = "threw"
             /\ turn'[t] # turn[t] ) =>
             /\ turn'[t].pc = "returned"
             /\ turn'[t].stored \in {"ok", "threw"}
             /\ Count("put", turn'[t].calls) = 1
        /\ ( /\ turn[t].pc = "returned" /\ turn'[t].pc = "idle"
             /\ turn[t].searched = "threw"
             /\ AsksToRemember(Tail(turn[t].llmInput)) ) =>
             /\ Count("put", turn[t].calls) = 1
             /\ turn[t].stored \in {"ok", "threw"}
    ]_vars

\* the search threw, llm.invoke answered, and the put has stored the
\* message that asks to remember
C29_Witness ==
  \E t \in Threads :
    /\ turn[t].pc = "returned"
    /\ turn[t].searched = "threw"
    /\ turn[t].invoked = "ok"
    /\ turn[t].stored = "ok"
    /\ AsksToRemember(messages[t])
    /\ \E i \in 1..Len(store) :
         store[i].key = turn[t].memoryId /\ store[i].value = turn[t].memoryItem

\* the thread's turn is inside conversationNode
InConversationNode(tr) == tr.pc \in {"conversationNode", "search", "invoke", "put"}

\* C30: while conversationNode runs, and when its update is merged, the
\* profile of the state stays as it was; the node leaves state.messages as
\* it received them, its update is the reply alone, and merging it appends
\* the reply to the incoming messages, none of which changes.
C30_OnlyTheReplyChanges ==
  [][ \A t \in Threads :
        /\ (InConversationNode(turn[t]) \/ turn[t].pc = "returned") =>
             user'[t] = user[t]
        /\ InConversationNode(turn[t]) => messages'[t] = messages[t]
        /\ (InConversationNode(turn[t]) /\ turn'[t].pc = "returned") =>
             /\ turn'[t].delta = Some(<<turn'[t].response[1]>>)
             /\ turn'[t].response[1].role = "ai"
             /\ \A i \in 1..Len(messages[t]) :
                  messages[t][i].id # turn'[t].response[1].id
             /\ Tail(turn'[t].llmInput) = messages[t]
        /\ (turn[t].pc = "returned" /\ turn'[t].pc = "idle") =>
             messages'[t] = messages[t] \o <<turn[t].response[1]>>
    ]_vars

\* the reply of a turn has been merged into a thread that holds a profile:
\* the question, the reply, and the profile still there
C30_Witness ==
  \E t \in Threads :
    /\ turn[t].pc = "idle"
    /\ Len(messages[t]) = 2
    /\ messages[t][1].role = "human"
    /\ messages[t][2].role = "ai"
    /\ user[t] = Some(MockPatient("alice"))

Spec == Init /\ [][Next]_vars

MemorySpec == MemoryInit /\ [][MemoryNext]_vars

ProfileSpec == ProfileInit /\ [][ProfileNext]_vars

ProbeSpec == ProbeInit /\ [][ProbeNext]_vars

====
